---- MODULE Spec2Model ----
(***************************************************************************)
(* Scheduling engine of the Calendar class (src/script.js, second copy of  *)
(* the class, lines 1843-2636): getAvailableSlots, autoScheduleTasks and   *)
(* the form handlers that drive them.                                      *)
(*                                                                         *)
(* Time is a count of minutes since 00:00 of a Sunday (day 0), in the      *)
(* browser's local time zone; a Date is that count.  A day has 24 hours    *)
(* (no daylight-saving change inside the horizon).                         *)
(***************************************************************************)
EXTENDS Integers, Sequences, FiniteSets, TLC

VARIABLES
    events,     \* this.events: fixed events, then the intervals of the last pass
    tasks,      \* this.tasks
    settings,   \* this.settings
    cookies,    \* document.cookie: calendarSettings, calendarEvents, calendarTasks
    pass,       \* what the latest autoScheduleTasks call read and computed
    handlers    \* the submit handlers that are suspended at an await

vars == <<events, tasks, settings, cookies, pass, handlers>>

-----------------------------------------------------------------------------
(* Bounds of the model *)

MaxTasks == 2
MaxEvents == 2

(* Program constants *)

HorizonDays == 14
MinTaskMinutes == 15

MinPerDay == 24 * 60
NULL == 0 - 1

Max(a, b) == IF a >= b THEN a ELSE b

\* The value of a property an object does not have, and the number NaN.  Both
\* are below every duration, so that `undefined > 0` is false as in JavaScript.
Undefined == 0 - 2
NaN == 0 - 3

\* The + of two numbers: a number plus undefined is NaN, and NaN stays NaN
Add(a, b) == IF {a, b} \cap {Undefined, NaN} # {} THEN NaN ELSE a + b

\* A Date at hour h of the day numbered d
At(d, h, m) == d * MinPerDay + h * 60 + m

-----------------------------------------------------------------------------
(* Date helpers *)

\* date.setHours(0, 0, 0, 0)
StartOfDay(t) == (t \div MinPerDay) * MinPerDay

\* A weekday number that counts from Monday = 0
GetDayFromMonday(t) == ((t \div MinPerDay) + 6) % 7

\* date.getDay(): 0 = Sunday .. 6 = Saturday
GetDay(t) == (t \div MinPerDay) % 7

\* (slot.end - slot.start) / 60000
Duration(slot) == slot.end - slot.start

-----------------------------------------------------------------------------
(* getAvailableSlots *)

\* A filter that keeps the task and commute intervals too
FixedEventsAndGenerated(evs) == evs

\* this.events.filter(event => event.isFixed)
FixedEvents(evs) == SelectSeq(evs, LAMBDA e : e.isFixed)

\* Array.prototype.sort((a, b) => a.start - b.start): stable
RECURSIVE InsertByStart(_, _)
InsertByStart(e, sorted) ==
    IF sorted = <<>> THEN <<e>>
    ELSE IF Head(sorted).start - e.start > 0 THEN <<e>> \o sorted
    ELSE <<Head(sorted)>> \o InsertByStart(e, Tail(sorted))

RECURSIVE SortByStart(_)
SortByStart(evs) ==
    IF evs = <<>> THEN <<>>
    ELSE InsertByStart(evs[Len(evs)], SortByStart(SubSeq(evs, 1, Len(evs) - 1)))

\* The overlap filter without the sort
DayEventsUnsorted(fixedEvents, effectiveStart, dayEnd) ==
    SelectSeq(fixedEvents, LAMBDA e : e.start < dayEnd /\ e.end > effectiveStart)

\* The events of one day: overlap filter, then sort
DayEvents(fixedEvents, effectiveStart, dayEnd) ==
    SortByStart(SelectSeq(fixedEvents,
        LAMBDA e : e.start < dayEnd /\ e.end > effectiveStart))

\* timePointer = new Date(event.end), the sweep of the earlier scheduler
AdvancePointerToEnd(timePointer, event) == event.end

\* Math.min in the place of Math.max
AdvancePointerMin(timePointer, event) ==
    IF timePointer <= event.end THEN timePointer ELSE event.end

\* The new value of timePointer after one event
AdvancePointer(timePointer, event) == Max(timePointer, event.end)

\* dayEvents.forEach(...) followed by the final slot of the day
RECURSIVE SweepDay(_, _, _)
SweepDay(dayEvents, timePointer, dayEnd) ==
    IF dayEvents = <<>>
    THEN IF timePointer < dayEnd
         THEN <<[start |-> timePointer, end |-> dayEnd]>>
         ELSE <<>>
    ELSE LET event == Head(dayEvents) IN
         (IF timePointer < event.start
          THEN <<[start |-> timePointer, end |-> event.start]>>
          ELSE <<>>)
         \o SweepDay(Tail(dayEvents), AdvancePointer(timePointer, event), dayEnd)

\* A walk that takes every day for a working day
IsWorkDayAlways(currentDate, s) == TRUE

\* A test that takes an empty list of work days for "every day"
IsWorkDayOrNoneSet(currentDate, s) ==
    s.workDays = {} \/ GetDay(currentDate) \in s.workDays

\* this.settings.workDays.includes(dayOfWeek)
IsWorkDay(currentDate, s) == GetDay(currentDate) \in s.workDays

\* A day loop whose sweep starts at startDate on every day
DaySlotsFromStartDate(fixedEvents, s, startDate, currentDate) ==
    IF IsWorkDay(currentDate, s)
    THEN LET dayEnd == currentDate + s.workingHours.end * 60
         IN IF startDate < dayEnd
            THEN SweepDay(DayEvents(fixedEvents, startDate, dayEnd), startDate, dayEnd)
            ELSE <<>>
    ELSE <<>>

\* The body of the while loop for one value of currentDate
DaySlots(fixedEvents, s, startDate, currentDate) ==
    IF IsWorkDay(currentDate, s)
    THEN LET dayStart == currentDate + s.workingHours.start * 60
             dayEnd == currentDate + s.workingHours.end * 60
             effectiveStart == IF startDate > dayStart THEN startDate ELSE dayStart
         IN IF effectiveStart < dayEnd
            THEN SweepDay(DayEvents(fixedEvents, effectiveStart, dayEnd),
                          effectiveStart, dayEnd)
            ELSE <<>>
    ELSE <<>>

\* while (currentDate < endDate) { ...; currentDate.setDate(getDate() + 1) }
RECURSIVE WalkDays(_, _, _, _, _)
WalkDays(fixedEvents, s, startDate, endDate, currentDate) ==
    IF currentDate < endDate
    THEN DaySlots(fixedEvents, s, startDate, currentDate)
         \o WalkDays(fixedEvents, s, startDate, endDate, currentDate + MinPerDay)
    ELSE <<>>

\* The list `slots` before the final filter
SweepSlots(evs, s, startDate, endDate) ==
    WalkDays(FixedEvents(evs), s, startDate, endDate, StartOfDay(startDate))

\* A filter that asks for the break alone
LongEnoughForBreak(slot, s) == Duration(slot) >= s.minBreakBetweenTasks

\* The predicate of the final filter
LongEnough(slot, s) == Duration(slot) >= s.minBreakBetweenTasks + MinTaskMinutes

FilterSlots(slots, s) == SelectSeq(slots, LAMBDA slot : LongEnough(slot, s))

GetAvailableSlots(evs, s, startDate, endDate) ==
    FilterSlots(SweepSlots(evs, s, startDate, endDate), s)

-----------------------------------------------------------------------------
(* autoScheduleTasks *)

\* A reset of the flag that leaves the two times as they are
ResetTasksFlagOnly(ts) ==
    [i \in DOMAIN ts |-> [ts[i] EXCEPT !.isScheduled = FALSE]]

\* this.tasks.forEach(task => { isScheduled = false; ... = null })
ResetTasks(ts) ==
    [i \in DOMAIN ts |->
        [ts[i] EXCEPT !.isScheduled = FALSE,
                      !.scheduledStart = NULL,
                      !.scheduledEnd = NULL]]

\* A comparator that puts the lower priority first
CompareTasksAscending(a, b) ==
    IF a.priority # b.priority
    THEN a.priority - b.priority
    ELSE a.deadline - b.deadline

\* A comparator that looks at the priority alone
CompareTasksPriorityOnly(a, b) == b.priority - a.priority

\* The comparator of the task sort: negative puts a first
CompareTasks(a, b) ==
    IF a.priority # b.priority
    THEN b.priority - a.priority
    ELSE a.deadline - b.deadline

\* [...this.tasks].sort(compare), stable.  The queue holds the tasks by
\* reference: here, by their index in this.tasks.
RECURSIVE InsertTask(_, _, _)
InsertTask(ts, i, sorted) ==
    IF sorted = <<>> THEN <<i>>
    ELSE IF CompareTasks(ts[Head(sorted)], ts[i]) > 0 THEN <<i>> \o sorted
    ELSE <<Head(sorted)>> \o InsertTask(ts, i, Tail(sorted))

RECURSIVE SortTasks(_, _)
SortTasks(ts, n) ==
    IF n = 0 THEN <<>> ELSE InsertTask(ts, n, SortTasks(ts, n - 1))

TaskQueue(ts) == SortTasks(ts, Len(ts))

\* The duration without the travel, as the scheduler without commutes has it
TotalDurationTaskOnly(task) == task.duration

\* task.duration + task.commuteToDuration + task.commuteFromDuration
TotalDuration(task) ==
    Add(Add(task.duration, task.commuteToDuration), task.commuteFromDuration)

\* A strict comparison in the place of >=
SlotFitsStrictly(slot, totalDuration) == Duration(slot) > totalDuration

\* A comparison of the length of the gap, whatever its sign
SlotFitsByLength(slot, totalDuration) ==
    /\ totalDuration # NaN
    /\ (IF Duration(slot) < 0 THEN 0 - Duration(slot) ELSE Duration(slot))
          >= totalDuration

\* if (slotDuration >= totalDuration): every comparison with NaN is false
SlotFits(slot, totalDuration) ==
    totalDuration # NaN /\ Duration(slot) >= totalDuration

\* for (let i = 0; i < availableSlots.length; i++): the first index that
\* fits, 0 when the loop ends without a break
RECURSIVE FindSlot(_, _, _)
FindSlot(slots, totalDuration, i) ==
    IF i > Len(slots) THEN 0
    ELSE IF SlotFits(slots[i], totalDuration) THEN i
    ELSE FindSlot(slots, totalDuration, i + 1)

CommuteEvent(label, task, from, to) ==
    [name |-> [label |-> label, of |-> task.name],
     start |-> from, end |-> to,
     isFixed |-> FALSE, isTask |-> FALSE, isCommute |-> TRUE, taskId |-> NULL]

\* A task event marked as a fixed one
TaskEventKeptAsFixed(task, from, to) ==
    [name |-> [label |-> "", of |-> task.name],
     start |-> from, end |-> to,
     isFixed |-> TRUE, isTask |-> TRUE, isCommute |-> FALSE, taskId |-> task.id]

\* The event pushed for a placed task
TaskEvent(task, from, to) ==
    [name |-> [label |-> "", of |-> task.name],
     start |-> from, end |-> to,
     isFixed |-> FALSE, isTask |-> TRUE, isCommute |-> FALSE, taskId |-> task.id]

\* A new start that lies the break before the end of the block
ShrinkSlotBack(slot, currentTime, s) ==
    [slot EXCEPT !.start = currentTime - s.minBreakBetweenTasks]

\* A new start without the break
ShrinkSlotNoBreak(slot, currentTime, s) == [slot EXCEPT !.start = currentTime]

\* A placement that leaves the slot as it was
ShrinkSlotNot(slot, currentTime, s) == slot

\* slot.start = new Date(currentTime.getTime() + minBreakBetweenTasks * 60000)
ShrinkSlot(slot, currentTime, s) ==
    [slot EXCEPT !.start = currentTime + s.minBreakBetweenTasks]

\* A placement that takes the first slot in which the block ends by the
\* deadline of the task
PlaceTaskByDeadline(st, ti, s) ==
    LET task == st.tasks[ti]
        inTime == {j \in DOMAIN st.slots :
                     /\ SlotFits(st.slots[j], TotalDuration(task))
                     /\ st.slots[j].start + TotalDuration(task) <= task.deadline}
        i == IF inTime = {} THEN 0
             ELSE CHOOSE j \in inTime : \A k \in inTime : j <= k
    IN IF i = 0
       THEN [st EXCEPT !.log = Append(@,
                [task |-> ti, slotsBefore |-> st.slots, slot |-> 0,
                 pushed |-> <<>>])]
       ELSE
         LET slot == st.slots[i]
             hasTo == task.commuteToDuration > 0
             hasFrom == task.commuteFromDuration > 0
             commuteToEnd == slot.start + task.commuteToDuration
             scheduledStart == IF hasTo THEN commuteToEnd ELSE slot.start
             scheduledEnd == scheduledStart + task.duration
             commuteFromEnd == scheduledEnd + task.commuteFromDuration
             currentTime == IF hasFrom THEN commuteFromEnd ELSE scheduledEnd
             pushed ==
                 (IF hasTo
                  THEN <<CommuteEvent("Commute to ", task, slot.start, commuteToEnd)>>
                  ELSE <<>>)
                 \o <<TaskEvent(task, scheduledStart, scheduledEnd)>>
                 \o (IF hasFrom
                     THEN <<CommuteEvent("Commute from ", task, scheduledEnd,
                                         commuteFromEnd)>>
                     ELSE <<>>)
         IN [tasks |-> [st.tasks EXCEPT ![ti] =
                           [@ EXCEPT !.isScheduled = TRUE,
                                     !.scheduledStart = scheduledStart,
                                     !.scheduledEnd = scheduledEnd]],
             events |-> st.events \o pushed,
             slots |-> [st.slots EXCEPT ![i] = ShrinkSlot(slot, currentTime, s)],
             log |-> Append(st.log,
                 [task |-> ti, slotsBefore |-> st.slots, slot |-> i,
                  pushed |-> pushed])]

\* The placement of the scheduler without commutes: the task starts at the
\* start of the slot
PlaceTaskAtSlotStart(st, ti, s) ==
    LET task == st.tasks[ti]
        i == FindSlot(st.slots, TotalDuration(task), 1)
    IN IF i = 0
       THEN [st EXCEPT !.log = Append(@,
                [task |-> ti, slotsBefore |-> st.slots, slot |-> 0,
                 pushed |-> <<>>])]
       ELSE
         LET slot == st.slots[i]
             scheduledEnd == slot.start + task.duration
             pushed == <<TaskEvent(task, slot.start, scheduledEnd)>>
         IN [tasks |-> [st.tasks EXCEPT ![ti] =
                           [@ EXCEPT !.isScheduled = TRUE,
                                     !.scheduledStart = slot.start,
                                     !.scheduledEnd = scheduledEnd]],
             events |-> st.events \o pushed,
             slots |-> [st.slots EXCEPT ![i] = ShrinkSlot(slot, scheduledEnd, s)],
             log |-> Append(st.log,
                 [task |-> ti, slotsBefore |-> st.slots, slot |-> i,
                  pushed |-> pushed])]

\* The body of taskQueue.forEach for the task at index ti of this.tasks.
\* st = [tasks, events, slots, log]; the log keeps, for every attempt, the
\* slot list the scan read, the index it chose and the events it pushed.
PlaceTask(st, ti, s) ==
    LET task == st.tasks[ti]
        i == FindSlot(st.slots, TotalDuration(task), 1)
    IN IF i = 0
       THEN [st EXCEPT !.log = Append(@,
                [task |-> ti, slotsBefore |-> st.slots, slot |-> 0,
                 pushed |-> <<>>])]
       ELSE
         LET slot == st.slots[i]
             hasTo == task.commuteToDuration > 0
             hasFrom == task.commuteFromDuration > 0
             commuteToEnd == slot.start + task.commuteToDuration
             scheduledStart == IF hasTo THEN commuteToEnd ELSE slot.start
             scheduledEnd == scheduledStart + task.duration
             commuteFromEnd == scheduledEnd + task.commuteFromDuration
             currentTime == IF hasFrom THEN commuteFromEnd ELSE scheduledEnd
             pushed ==
                 (IF hasTo
                  THEN <<CommuteEvent("Commute to ", task, slot.start, commuteToEnd)>>
                  ELSE <<>>)
                 \o <<TaskEvent(task, scheduledStart, scheduledEnd)>>
                 \o (IF hasFrom
                     THEN <<CommuteEvent("Commute from ", task, scheduledEnd,
                                         commuteFromEnd)>>
                     ELSE <<>>)
         IN [tasks |-> [st.tasks EXCEPT ![ti] =
                           [@ EXCEPT !.isScheduled = TRUE,
                                     !.scheduledStart = scheduledStart,
                                     !.scheduledEnd = scheduledEnd]],
             events |-> st.events \o pushed,
             slots |-> [st.slots EXCEPT ![i] = ShrinkSlot(slot, currentTime, s)],
             log |-> Append(st.log,
                 [task |-> ti, slotsBefore |-> st.slots, slot |-> i,
                  pushed |-> pushed])]

\* A loop that ends at the first task it finds no slot for
RECURSIVE RunQueueUntilNoSlot(_, _, _)
RunQueueUntilNoSlot(st, queue, s) ==
    IF queue = <<>> THEN st
    ELSE LET next == PlaceTask(st, Head(queue), s) IN
         IF next.log[Len(next.log)].slot = 0 THEN next
         ELSE RunQueueUntilNoSlot(next, Tail(queue), s)

\* taskQueue.forEach(task => { ... })
RECURSIVE RunQueue(_, _, _)
RunQueue(st, queue, s) ==
    IF queue = <<>> THEN st
    ELSE RunQueue(PlaceTask(st, Head(queue), s), Tail(queue), s)

\* now + 14 * 24 * 60 * 60 * 1000
TwoWeeksFrom(now) == now + HorizonDays * MinPerDay

\* One call of autoScheduleTasks at clock reading `now`: the new tasks and
\* events, and the record of the pass.
AutoScheduleTasks(ts, evs, s, now) ==
    LET fixed == FixedEvents(evs)
        queue == TaskQueue(ResetTasks(ts))
        swept == SweepSlots(fixed, s, now, TwoWeeksFrom(now))
        availableSlots == FilterSlots(swept, s)
        final == RunQueue([tasks |-> ResetTasks(ts), events |-> fixed,
                           slots |-> availableSlots, log |-> <<>>], queue, s)
    IN [tasks |-> final.tasks,
        events |-> final.events,
        pass |-> [done |-> TRUE, now |-> now, settings |-> s, fixed |-> fixed,
                  swept |-> swept, slots |-> availableSlots, queue |-> queue,
                  log |-> final.log, finalSlots |-> final.slots,
                  tasks |-> final.tasks, events |-> final.events]]

-----------------------------------------------------------------------------
(* addTask, addEvent *)

\* A commute lookup is made only with a location, a home address and a key
LooksUpCommute(location, s) == location /\ s.homeAddress /\ s.orsApiKey

\* addTask(task): the task pushed on this.tasks.  lookupTo and lookupFrom
\* are what the two getCommuteTime calls return; `a || b` takes b for 0.
AddTask(task, id, s, lookupTo, lookupFrom) ==
    [id |-> id,
     name |-> task.name,
     priority |-> IF task.priority = 0 THEN 1 ELSE task.priority,
     duration |-> IF task.duration = 0 THEN s.defaultTaskDuration ELSE task.duration,
     deadline |-> task.deadline,
     location |-> task.location,
     isScheduled |-> FALSE,
     scheduledStart |-> NULL,
     scheduledEnd |-> NULL,
     commuteToDuration |-> IF LooksUpCommute(task.location, s) THEN lookupTo ELSE 0,
     commuteFromDuration |-> IF LooksUpCommute(task.location, s) THEN lookupFrom ELSE 0]

FixedEvent(label, name, from, to, isCommute) ==
    [name |-> [label |-> label, of |-> name],
     start |-> from, end |-> to,
     isFixed |-> TRUE, isTask |-> FALSE, isCommute |-> isCommute, taskId |-> NULL]

\* addEvent(event): this.events after the call
AddEvent(evs, event, s, lookupTo, lookupFrom) ==
    evs \o <<FixedEvent("", event.name, event.start, event.end, FALSE)>>
        \o (IF LooksUpCommute(event.location, s) /\ lookupTo > 0
            THEN <<FixedEvent("Commute to ", event.name,
                              event.start - lookupTo, event.start, TRUE)>>
            ELSE <<>>)
        \o (IF LooksUpCommute(event.location, s) /\ lookupFrom > 0
            THEN <<FixedEvent("Commute from ", event.name,
                              event.end, event.end + lookupFrom, TRUE)>>
            ELSE <<>>)

-----------------------------------------------------------------------------
(* JSON, the cookies, exportData and importData *)

\* Date.prototype.toJSON inside JSON.stringify: the ISO string that names the
\* instant, a string of one date; null is the empty string of dates
DateToJSON(t) == <<t>>
JsonNull == <<>>

\* new Date(isoString)
NewDate(str) == str[1]

\* JSON.stringify(this.events)
StringifyEvents(evs) ==
    [i \in DOMAIN evs |->
        [evs[i] EXCEPT !.start = DateToJSON(@), !.end = DateToJSON(@)]]

\* JSON.stringify(this.tasks)
StringifyTasks(ts) ==
    [i \in DOMAIN ts |->
        [ts[i] EXCEPT !.deadline = DateToJSON(@),
                      !.scheduledStart = IF @ = NULL THEN JsonNull ELSE DateToJSON(@),
                      !.scheduledEnd = IF @ = NULL THEN JsonNull ELSE DateToJSON(@)]]

\* JSON.parse(...).map(e => ({...e, start: new Date(e.start), end: new Date(e.end)}))
ReviveEvents(data) ==
    [i \in DOMAIN data |->
        [data[i] EXCEPT !.start = NewDate(@), !.end = NewDate(@)]]

\* JSON.parse(...).map(t => ({...t, deadline: new Date(t.deadline),
\*    scheduledStart: t.scheduledStart ? new Date(t.scheduledStart) : null, ...}))
ReviveTasks(data) ==
    [i \in DOMAIN data |->
        [data[i] EXCEPT !.deadline = NewDate(@),
                        !.scheduledStart = IF @ = JsonNull THEN NULL ELSE NewDate(@),
                        !.scheduledEnd = IF @ = JsonNull THEN NULL ELSE NewDate(@)]]

\* A cookie that is not set (getCookie returns null) and a cookie with a value
NoCookie == <<>>
Cookie(value) == <<value>>

NoCookies ==
    [calendarSettings |-> NoCookie, calendarEvents |-> NoCookie,
     calendarTasks |-> NoCookie]

\* saveData(): the cookies after the call
SaveData(c, evs, ts) ==
    [c EXCEPT !.calendarEvents = Cookie(StringifyEvents(evs)),
              !.calendarTasks = Cookie(StringifyTasks(ts))]

\* loadSettings(): this.settings after the call.  The settings hold numbers,
\* strings and an array of numbers, which JSON writes and reads back as they are.
LoadSettings(c, s) ==
    IF c.calendarSettings = NoCookie THEN s ELSE c.calendarSettings[1]

\* loadData(): this.events and this.tasks after the call
LoadData(c, evs, ts) ==
    [events |-> IF c.calendarEvents = NoCookie THEN evs
                ELSE ReviveEvents(c.calendarEvents[1]),
     tasks |-> IF c.calendarTasks = NoCookie THEN ts
               ELSE ReviveTasks(c.calendarTasks[1])]

\* exportData() followed by JSON.stringify (exportCalendar) and, on the way
\* back, JSON.parse (importCalendar).  A key of the file holds one value or,
\* when the file has no such key, none.
ExportData(evs, ts, s) ==
    [events |-> <<StringifyEvents(evs)>>,
     tasks |-> <<StringifyTasks(ts)>>,
     settings |-> <<s>>]

\* importData(data): events, tasks and settings after the call
ImportData(data, evs, ts, s) ==
    [events |-> IF data.events = <<>> THEN evs ELSE ReviveEvents(data.events[1]),
     tasks |-> IF data.tasks = <<>> THEN ts ELSE ReviveTasks(data.tasks[1]),
     settings |-> IF data.settings = <<>> THEN s ELSE data.settings[1]]

\* saveSettings(settings): this.settings after the call.  workStart and
\* workEnd are "HH:MM" strings, here the pair <<HH, MM>>.
SaveSettings(input, s) ==
    [s EXCEPT !.orsApiKey = input.orsApiKey,
              !.homeAddress = input.homeAddress,
              !.workingHours = [start |-> input.workStart[1],
                                end |-> input.workEnd[1]],
              !.workDays = input.workDays,
              !.minBreakBetweenTasks = input.minBreak,
              !.defaultTaskDuration = input.defaultDuration]

-----------------------------------------------------------------------------
(* Inputs *)

\* The reading of the clock, new Date(): Monday 10:00 of the first week
Clock == {At(1, 10, 0)}

\* What getCommuteTime returns: Math.round(seconds / 60), 0 on an error
CommuteMinutes == {0, 15}

DefaultSettings ==
    [workingHours |-> [start |-> 9, end |-> 17],
     workDays |-> {1, 2, 3, 4, 5},
     defaultTaskDuration |-> 60,
     minBreakBetweenTasks |-> 15,
     orsApiKey |-> FALSE,
     homeAddress |-> FALSE]

\* What the settings form can submit
SettingsInputs ==
    {[start |-> 9, end |-> 17, workDays |-> {1, 2, 3, 4, 5}, minBreak |-> 15,
      defaultDuration |-> 60],
     [start |-> 9, end |-> 17, workDays |-> {2}, minBreak |-> 30,
      defaultDuration |-> 60],
     [start |-> 9, end |-> 16, workDays |-> {2}, minBreak |-> 0,
      defaultDuration |-> 60],
     [start |-> 9, end |-> 17, workDays |-> {}, minBreak |-> 0,
      defaultDuration |-> 60]}

\* What the task form can submit (priority 1..10, duration a multiple of 15)
TaskInputs ==
    {[name |-> 1, priority |-> 1, duration |-> 30, deadline |-> At(5, 0, 0),
      location |-> TRUE],
     [name |-> 2, priority |-> 1, duration |-> 480, deadline |-> At(3, 0, 0),
      location |-> FALSE],
     [name |-> 3, priority |-> 2, duration |-> 480, deadline |-> At(5, 0, 0),
      location |-> FALSE]}

\* What the event form can submit, all on the Tuesday of the first week.
\* The form does not compare start and end: the last one ends before it starts.
EventInputs ==
    {[name |-> 1, start |-> At(2, 10, 0), end |-> At(2, 11, 0), location |-> FALSE],
     [name |-> 2, start |-> At(2, 10, 0), end |-> At(2, 10, 5), location |-> FALSE],
     [name |-> 3, start |-> At(2, 10, 30), end |-> At(2, 10, 45), location |-> FALSE],
     [name |-> 4, start |-> At(2, 12, 0), end |-> At(2, 11, 0), location |-> FALSE]}

-----------------------------------------------------------------------------
(* The state machine *)

NoPass ==
    [done |-> FALSE, now |-> 0, settings |-> DefaultSettings, fixed |-> <<>>,
     swept |-> <<>>, slots |-> <<>>, queue |-> <<>>, log |-> <<>>,
     finalSlots |-> <<>>, tasks |-> <<>>, events |-> <<>>]

\* After the constructor: no saved tasks or events; the settings are the
\* defaults, or the defaults saved earlier with a key and a home address.
Init ==
    /\ events = <<>>
    /\ tasks = <<>>
    /\ \E k \in BOOLEAN :
          /\ settings = [DefaultSettings EXCEPT !.orsApiKey = k, !.homeAddress = k]
          /\ cookies = [NoCookies EXCEPT !.calendarSettings =
                            IF k THEN Cookie(settings) ELSE NoCookie]
    /\ pass = NoPass
    /\ handlers = <<>>

\* The effect of this.autoScheduleTasks() on tasks ts and events evs; the
\* call ends with saveData()
Reschedule(ts, evs, s, now) ==
    \E r \in {AutoScheduleTasks(ts, evs, s, now)} :
    /\ tasks' = r.tasks
    /\ events' = r.events
    /\ pass' = r.pass
    /\ cookies' = SaveData(cookies, r.events, r.tasks)

\* The submit handler of the task form, for the given form inputs and clock
TaskFormSubmitWith(taskInputs, clock) ==
    /\ Len(tasks) < MaxTasks
    /\ \E task \in taskInputs, now \in clock, lookupTo, lookupFrom \in CommuteMinutes :
          /\ now >= pass.now
          /\ LooksUpCommute(task.location, settings) \/ (lookupTo = 0 /\ lookupFrom = 0)
          /\ Reschedule(
                Append(tasks, AddTask(task, Len(tasks) + 1, settings, lookupTo, lookupFrom)),
                events, settings, now)
          /\ UNCHANGED <<settings, handlers>>

TaskFormSubmit == TaskFormSubmitWith(TaskInputs, Clock)

\* The number of events entered through the event form
Entered(evs) == Len(SelectSeq(evs, LAMBDA e : e.isFixed /\ ~e.isCommute))

\* The submit handler of the event form, for the given form inputs and clock
EventFormSubmitWith(eventInputs, clock) ==
    /\ Entered(events) < MaxEvents
    /\ \E event \in eventInputs, now \in clock, lookupTo, lookupFrom \in CommuteMinutes :
          /\ now >= pass.now
          /\ LooksUpCommute(event.location, settings) \/ (lookupTo = 0 /\ lookupFrom = 0)
          /\ Reschedule(tasks, AddEvent(events, event, settings, lookupTo, lookupFrom),
                        settings, now)
          /\ UNCHANGED <<settings, handlers>>

EventFormSubmit == EventFormSubmitWith(EventInputs, Clock)

\* The settings after the settings form submitted `input`
WithInput(s, input) ==
    [s EXCEPT !.workingHours = [start |-> input.start, end |-> input.end],
              !.workDays = input.workDays,
              !.minBreakBetweenTasks = input.minBreak,
              !.defaultTaskDuration = input.defaultDuration]

\* The submit handler of the settings form, for the given form inputs and clock
SettingsFormSubmitWith(settingsInputs, clock) ==
    \E input \in settingsInputs, now \in clock :
       /\ now >= pass.now
       /\ settings' = WithInput(settings, input)
       /\ Reschedule(tasks, events, WithInput(settings, input), now)
       /\ UNCHANGED handlers

SettingsFormSubmit == SettingsFormSubmitWith(SettingsInputs, Clock)

\* The button "Re-Schedule All Tasks"
RescheduleButton ==
    \E now \in Clock :
       /\ now >= pass.now
       /\ Reschedule(tasks, events, settings, now)
       /\ UNCHANGED <<settings, handlers>>

Next == TaskFormSubmit \/ EventFormSubmit \/ SettingsFormSubmit \/ RescheduleButton

Spec == Init /\ [][Next]_vars

-----------------------------------------------------------------------------
(* The state machine with the stored data: cookies, files, calendars *)

\* The clock reading of an earlier session: Monday 09:00 of the first week
EarlierClock == At(1, 9, 0)

\* The file exportCalendar wrote in an earlier session: default settings, one
\* 30-minute task added at EarlierClock
ExportedFile ==
    LET input == CHOOSE t \in TaskInputs : t.duration = 30
        r == AutoScheduleTasks(<<AddTask(input, 1, DefaultSettings, 0, 0)>>, <<>>,
                               DefaultSettings, EarlierClock)
    IN ExportData(r.events, r.tasks, DefaultSettings)

\* A file with the key "settings" alone: Tuesday is the one working day
SettingsFile ==
    [events |-> <<>>, tasks |-> <<>>,
     settings |-> <<[DefaultSettings EXCEPT !.workDays = {2}]>>]

\* A file with the key "tasks" alone, written from a task of the earlier
\* addTask, which has no commute fields: 30 minutes, not yet scheduled
LegacyFile ==
    [events |-> <<>>,
     tasks |-> <<StringifyTasks(<<
        [id |-> 1, name |-> 1, priority |-> 1, duration |-> 30,
         deadline |-> At(5, 0, 0), location |-> FALSE, isScheduled |-> FALSE,
         scheduledStart |-> NULL, scheduledEnd |-> NULL,
         commuteToDuration |-> Undefined, commuteFromDuration |-> Undefined]>>)>>,
     settings |-> <<>>]

\* The files importCalendar can be given
SnapshotFiles == {ExportedFile, SettingsFile, LegacyFile}

\* The arguments saveSettings can be called with
SaveSettingsInputs ==
    {[orsApiKey |-> TRUE, homeAddress |-> TRUE, workStart |-> <<9, 0>>,
      workEnd |-> <<17, 0>>, workDays |-> {2}, minBreak |-> 15,
      defaultDuration |-> 60],
     [orsApiKey |-> FALSE, homeAddress |-> FALSE, workStart |-> <<9, 30>>,
      workEnd |-> <<17, 0>>, workDays |-> {1, 2, 3, 4, 5}, minBreak |-> 15,
      defaultDuration |-> 60]}

\* The events parseICS returns for the calendars fetchICS can be given
IcsInputs ==
    {<<[name |-> 1, start |-> At(2, 10, 0), end |-> At(2, 11, 0), location |-> FALSE]>>,
     <<[name |-> 1, start |-> At(2, 10, 0), end |-> At(2, 11, 0), location |-> FALSE],
       [name |-> 3, start |-> At(2, 10, 30), end |-> At(2, 10, 45), location |-> FALSE]>>}

\* importCalendar: importData(JSON.parse(file)), which ends with saveData()
ImportCalendar ==
    \E file \in SnapshotFiles :
       LET r == ImportData(file, events, tasks, settings) IN
       /\ events' = r.events
       /\ tasks' = r.tasks
       /\ settings' = r.settings
       /\ cookies' = SaveData(cookies, r.events, r.tasks)
       /\ UNCHANGED <<pass, handlers>>

\* A call of saveSettings: the settings and their cookie, nothing else
SaveSettingsCall ==
    \E input \in SaveSettingsInputs :
       /\ settings' = SaveSettings(input, settings)
       /\ cookies' = [cookies EXCEPT !.calendarSettings = Cookie(settings')]
       /\ UNCHANGED <<events, tasks, pass, handlers>>

\* The loop of fetchICS: addEvent for every parsed event that no stored event
\* equals in name and start
RECURSIVE AddNewEvents(_, _, _)
AddNewEvents(evs, parsed, s) ==
    IF parsed = <<>> THEN evs
    ELSE LET event == Head(parsed)
             exists == \E i \in DOMAIN evs :
                          /\ evs[i].name = [label |-> "", of |-> event.name]
                          /\ evs[i].start = event.start
         IN AddNewEvents(IF exists THEN evs ELSE AddEvent(evs, event, s, 0, 0),
                         Tail(parsed), s)

\* fetchICS(url) when the calendar is fetched: the new events, then a pass
FetchICS ==
    \E parsed \in IcsInputs, now \in Clock :
       /\ now >= pass.now
       /\ Entered(AddNewEvents(events, parsed, settings)) <= MaxEvents
       /\ Reschedule(tasks, AddNewEvents(events, parsed, settings), settings, now)
       /\ UNCHANGED <<settings, handlers>>

\* The page is loaded again: the constructor reads the cookies
Reload ==
    LET data == LoadData(cookies, <<>>, <<>>) IN
    /\ settings' = LoadSettings(cookies, DefaultSettings)
    /\ events' = data.events
    /\ tasks' = data.tasks
    /\ UNCHANGED <<cookies, pass, handlers>>

\* The form inputs of this state machine: the 30-minute task, the event of
\* Tuesday 10:00-11:00, the default settings and Tuesday as the one working day
DataTaskInputs == {t \in TaskInputs : t.duration = 30}
DataEventInputs == {e \in EventInputs : e.name = 1}
DataSettingsInputs == {i \in SettingsInputs : i.minBreak > 0}

DataTaskFormSubmit == TaskFormSubmitWith(DataTaskInputs, Clock)
DataEventFormSubmit == EventFormSubmitWith(DataEventInputs, Clock)
DataSettingsFormSubmit == SettingsFormSubmitWith(DataSettingsInputs, Clock)

NextData ==
    \/ DataTaskFormSubmit
    \/ DataEventFormSubmit
    \/ DataSettingsFormSubmit
    \/ ImportCalendar
    \/ SaveSettingsCall
    \/ FetchICS
    \/ Reload

SpecData == Init /\ [][NextData]_vars

-----------------------------------------------------------------------------
(* The state machine on the inputs of the worked scenarios *)

\* Clock readings after the working hours of Monday and at the first working
\* minute of Tuesday
ScenarioClock == {At(1, 18, 0), At(2, 9, 0)}

\* Settings forms: the defaults; working hours to 18:00; no work day; working
\* hours that end before they start
ScenarioSettingsInputs ==
    {[start |-> 9, end |-> 17, workDays |-> {1, 2, 3, 4, 5}, minBreak |-> 15,
      defaultDuration |-> 60],
     [start |-> 9, end |-> 18, workDays |-> {1, 2, 3, 4, 5}, minBreak |-> 15,
      defaultDuration |-> 60],
     [start |-> 9, end |-> 17, workDays |-> {}, minBreak |-> 15,
      defaultDuration |-> 60],
     [start |-> 17, end |-> 9, workDays |-> {1, 2, 3, 4, 5}, minBreak |-> 15,
      defaultDuration |-> 60]}

\* Task forms: 30 minutes at priority 5, due Wednesday; 480 minutes at priority 10
ScenarioTaskInputs ==
    {[name |-> 1, priority |-> 5, duration |-> 30, deadline |-> At(3, 0, 0),
      location |-> FALSE],
     [name |-> 2, priority |-> 10, duration |-> 480, deadline |-> At(5, 0, 0),
      location |-> FALSE]}

\* Event forms: Tuesday 10:00-11:00; Tuesday 17:20-18:00; Tuesday 17:20 to
\* the end of the horizon
ScenarioEventInputs ==
    {[name |-> 1, start |-> At(2, 10, 0), end |-> At(2, 11, 0), location |-> FALSE],
     [name |-> 2, start |-> At(2, 17, 20), end |-> At(2, 18, 0), location |-> FALSE],
     [name |-> 3, start |-> At(2, 17, 20), end |-> At(17, 0, 0), location |-> FALSE]}

ScenarioTaskFormSubmit == TaskFormSubmitWith(ScenarioTaskInputs, ScenarioClock)
ScenarioEventFormSubmit == EventFormSubmitWith(ScenarioEventInputs, ScenarioClock)
ScenarioSettingsFormSubmit ==
    SettingsFormSubmitWith(ScenarioSettingsInputs, ScenarioClock)

NextScenario ==
    \/ ScenarioTaskFormSubmit
    \/ ScenarioEventFormSubmit
    \/ ScenarioSettingsFormSubmit

SpecScenario == Init /\ [][NextScenario]_vars

-----------------------------------------------------------------------------
(* The state machine on fixed events that overlap, and on both ends of the
   horizon *)

\* Settings forms: the defaults; Monday as the one working day
SweepSettingsInputs ==
    {[start |-> 9, end |-> 17, workDays |-> {1, 2, 3, 4, 5}, minBreak |-> 15,
      defaultDuration |-> 60],
     [start |-> 9, end |-> 17, workDays |-> {1}, minBreak |-> 15,
      defaultDuration |-> 60]}

\* Event forms, all on the Monday of the second week: 10:00-12:00; 11:00-13:00,
\* which overlaps it; 10:30-11:00, inside it; 08:00-09:30, across the start of
\* the working day.  The same form can be submitted twice.
SweepEventInputs ==
    {[name |-> 1, start |-> At(8, 10, 0), end |-> At(8, 12, 0), location |-> FALSE],
     [name |-> 2, start |-> At(8, 11, 0), end |-> At(8, 13, 0), location |-> FALSE],
     [name |-> 3, start |-> At(8, 10, 30), end |-> At(8, 11, 0), location |-> FALSE],
     [name |-> 4, start |-> At(8, 8, 0), end |-> At(8, 9, 30), location |-> FALSE]}

\* Task forms: the two tasks of 480 minutes
SweepTaskInputs == {t \in TaskInputs : t.duration = 480}

SweepTaskFormSubmit == TaskFormSubmitWith(SweepTaskInputs, Clock)
SweepEventFormSubmit == EventFormSubmitWith(SweepEventInputs, Clock)
SweepSettingsFormSubmit == SettingsFormSubmitWith(SweepSettingsInputs, Clock)

NextSweep ==
    \/ SweepTaskFormSubmit
    \/ SweepEventFormSubmit
    \/ SweepSettingsFormSubmit

SpecSweep == Init /\ [][NextSweep]_vars

-----------------------------------------------------------------------------
(* The state machine with the awaits of the submit handlers.  A handler is
   suspended while a getCommuteTime of its addTask or addEvent waits for the
   network, and any suspended handler may be the next one to go on.  What
   follows the last await (the push, the return to the handler and its
   this.autoScheduleTasks()) is one chain of microtasks, so it is one step;
   so is a submission without a lookup. *)

\* Task forms: the 30-minute task with a location, the 480-minute task of
\* the same priority without one
AsyncTaskInputs == {t \in TaskInputs : t.priority = 1}

\* Event forms: Tuesday 10:00-11:00 with a location, Tuesday 10:30-10:45
\* without one
AsyncEventInputs ==
    {[name |-> 1, start |-> At(2, 10, 0), end |-> At(2, 11, 0), location |-> TRUE],
     [name |-> 3, start |-> At(2, 10, 30), end |-> At(2, 10, 45), location |-> FALSE]}

\* A suspended handler: at the first getCommuteTime of its addTask or
\* addEvent ("to", the call started) or at the second ("from"); `to` is the
\* result of the first
Handler(kind, stage, item, to) ==
    [kind |-> kind, stage |-> stage, item |-> item, to |-> to]

\* The handlers without the i-th
RemoveAt(seq, i) == SubSeq(seq, 1, i - 1) \o SubSeq(seq, i + 1, Len(seq))

\* The task handlers, whose tasks are not yet pushed on this.tasks
PendingTasks == Len(SelectSeq(handlers, LAMBDA h : h.kind = "task"))

\* Commute events that leave out the way there
EventCommutesFromOnly(event, s, lookupTo, lookupFrom) ==
    IF LooksUpCommute(event.location, s) /\ lookupFrom > 0
    THEN <<FixedEvent("Commute from ", event.name, event.end,
                      event.end + lookupFrom, TRUE)>>
    ELSE <<>>

\* The commute events addEvent pushes after its two lookups
EventCommutes(event, s, lookupTo, lookupFrom) ==
    Tail(AddEvent(<<>>, event, s, lookupTo, lookupFrom))

\* The task form is submitted: without a lookup addTask pushes the task and
\* the handler runs the pass; with one the handler is suspended
TaskSubmit ==
    /\ Len(tasks) + PendingTasks < MaxTasks
    /\ \E task \in AsyncTaskInputs, now \in Clock :
          LET newTask == AddTask(task, Len(tasks) + PendingTasks + 1, settings, 0, 0)
          IN IF LooksUpCommute(task.location, settings)
             THEN /\ handlers' = Append(handlers, Handler("task", "to", newTask, 0))
                  /\ UNCHANGED <<tasks, events, cookies, pass>>
             ELSE /\ now >= pass.now
                  /\ Reschedule(Append(tasks, newTask), events, settings, now)
                  /\ UNCHANGED handlers
    /\ UNCHANGED settings

\* The event form is submitted: addEvent pushes the event; without a lookup
\* the handler runs the pass, with one it is suspended.  Event forms stay one
\* below the bound on events, the task forms use theirs in full
EventSubmit ==
    /\ Entered(events) + 1 < MaxEvents
    /\ \E event \in AsyncEventInputs, now \in Clock :
          LET added == Append(events,
                  FixedEvent("", event.name, event.start, event.end, FALSE))
          IN IF LooksUpCommute(event.location, settings)
             THEN /\ events' = added
                  /\ handlers' = Append(handlers, Handler("event", "to", event, 0))
                  /\ UNCHANGED <<tasks, cookies, pass>>
             ELSE /\ now >= pass.now
                  /\ Reschedule(tasks, added, settings, now)
                  /\ UNCHANGED handlers
    /\ UNCHANGED settings

\* The first getCommuteTime of a handler returns
LookupToReturns ==
    \E i \in DOMAIN handlers, minutes \in CommuteMinutes :
       /\ handlers[i].stage = "to"
       /\ handlers' = [handlers EXCEPT
             ![i] = IF @.kind = "task"
                    THEN [@ EXCEPT !.stage = "from", !.to = minutes,
                                   !.item.commuteToDuration = minutes]
                    ELSE [@ EXCEPT !.stage = "from", !.to = minutes]]
       /\ UNCHANGED <<events, tasks, settings, cookies, pass>>

\* The second getCommuteTime of a handler returns: addTask pushes the task,
\* addEvent pushes the commute events, and the handler runs the pass
LookupFromReturns ==
    \E i \in DOMAIN handlers, minutes \in CommuteMinutes, now \in Clock :
       LET h == handlers[i] IN
       /\ h.stage = "from"
       /\ now >= pass.now
       /\ IF h.kind = "task"
          THEN Reschedule(Append(tasks, [h.item EXCEPT !.commuteFromDuration = minutes]),
                          events, settings, now)
          ELSE Reschedule(tasks, events \o EventCommutes(h.item, settings, h.to, minutes),
                          settings, now)
       /\ handlers' = RemoveAt(handlers, i)
       /\ UNCHANGED settings

NextAsync ==
    \/ TaskSubmit
    \/ EventSubmit
    \/ LookupToReturns
    \/ LookupFromReturns

SpecAsync == Init /\ [][NextAsync]_vars

-----------------------------------------------------------------------------
(* Vocabulary of the properties *)

\* The elements of a sequence
Range(seq) == {seq[i] : i \in DOMAIN seq}

RECURSIVE SumDurations(_)
SumDurations(seq) ==
    IF seq = <<>> THEN 0 ELSE Duration(Head(seq)) + SumDurations(Tail(seq))

\* A fixed interval as the data model has it: it starts before it ends
WellFormed(evs) == \A i \in DOMAIN evs : evs[i].start < evs[i].end

\* Two intervals share time
Overlap(a, b) == a.start < b.end /\ a.end > b.start

PairwiseDisjoint(seq) ==
    \A i, j \in DOMAIN seq :
        i < j => (seq[i].end <= seq[j].start \/ seq[j].end <= seq[i].start)

\* The days the horizon of the latest pass walks through
PassDays ==
    {d \in (pass.now \div MinPerDay) .. (TwoWeeksFrom(pass.now) \div MinPerDay) :
        d * MinPerDay < TwoWeeksFrom(pass.now)}

WorkStart(d) == d * MinPerDay + pass.settings.workingHours.start * 60
WorkEnd(d) == d * MinPerDay + pass.settings.workingHours.end * 60

Threshold == pass.settings.minBreakBetweenTasks + MinTaskMinutes

-----------------------------------------------------------------------------
(* C1..C4: getAvailableSlots *)

C1_AnyEvents ==
    pass.done =>
        \A i \in DOMAIN pass.slots :
            /\ pass.slots[i].start < pass.slots[i].end
            /\ i < Len(pass.slots) => pass.slots[i].end <= pass.slots[i + 1].start

\* The pieces of working day d: the returned gaps of the day, the fixed
\* events, and the swept stretches of the day the filter dropped
DayPieces(d) ==
    SelectSeq(pass.slots, LAMBDA g : g.start \div MinPerDay = d)
    \o pass.fixed
    \o SelectSeq(pass.swept,
           LAMBDA g : g.start \div MinPerDay = d /\ Duration(g) < Threshold)

\* The fixed events are well-formed, pairwise disjoint and inside the
\* working hours of day d
EventsInsideDay(d) ==
    /\ PairwiseDisjoint(pass.fixed)
    /\ \A i \in DOMAIN pass.fixed :
          /\ WorkStart(d) <= pass.fixed[i].start
          /\ pass.fixed[i].start < pass.fixed[i].end
          /\ pass.fixed[i].end <= WorkEnd(d)

\* Day d is a working day that lies in the horizon from its first working
\* minute to its last
FullWorkingDay(d) ==
    /\ d \in PassDays
    /\ (d % 7) \in pass.settings.workDays
    /\ pass.now <= WorkStart(d)
    /\ WorkStart(d) < WorkEnd(d)
    /\ WorkEnd(d) <= TwoWeeksFrom(pass.now)

\* C2: on a working day fully inside the horizon, when the fixed events are
\* pairwise disjoint and inside the working hours of that day, the returned
\* gaps of the day, the fixed events and the dropped short stretches are
\* pairwise disjoint pieces inside [dayStart, dayEnd) whose lengths add up to
\* the length of the working day: every minute of the day is in exactly one.
C2_DayCovered ==
    pass.done =>
        \A d \in PassDays :
            (FullWorkingDay(d) /\ EventsInsideDay(d)) =>
                LET pieces == DayPieces(d) IN
                /\ \A i \in DOMAIN pieces :
                      /\ WorkStart(d) <= pieces[i].start
                      /\ pieces[i].start < pieces[i].end
                      /\ pieces[i].end <= WorkEnd(d)
                /\ PairwiseDisjoint(pieces)
                /\ SumDurations(pieces) = WorkEnd(d) - WorkStart(d)

\* Two events on one full working day, with a returned gap and a dropped
\* stretch on that day
C2_Witness ==
    /\ pass.done
    /\ Len(pass.fixed) = 2
    /\ \E d \in PassDays :
          /\ FullWorkingDay(d)
          /\ EventsInsideDay(d)
          /\ \E g \in Range(pass.slots) : g.start \div MinPerDay = d
          /\ \E g \in Range(pass.swept) :
                g.start \div MinPerDay = d /\ Duration(g) < Threshold

\* C3: every returned gap lies inside the working hours of one day whose
\* weekday is a working day, and overlaps no fixed event.
C3_GapsInWorkingHours ==
    pass.done =>
        \A g \in Range(pass.slots) :
            LET d == g.start \div MinPerDay IN
            /\ (d % 7) \in pass.settings.workDays
            /\ WorkStart(d) <= g.start
            /\ g.end <= WorkEnd(d)
            /\ \A f \in Range(pass.fixed) : ~Overlap(f, g)

\* Gaps around a fixed event, with work days that are not the default ones
C3_Witness ==
    /\ pass.done
    /\ pass.settings.workDays = {2}
    /\ pass.fixed # <<>>
    /\ \E g \in Range(pass.slots), f \in Range(pass.fixed) : g.end = f.start
    /\ \E g \in Range(pass.slots), f \in Range(pass.fixed) : g.start = f.end

\* C4: every returned gap lasts at least minBreakBetweenTasks + 15 minutes,
\* and the returned list is the swept list without the stretches shorter
\* than that: nothing long enough is dropped and nothing is added.
C4_FilterThreshold ==
    pass.done =>
        /\ \A g \in Range(pass.slots) : Duration(g) >= Threshold
        /\ \A g \in Range(pass.swept) : Duration(g) >= Threshold => g \in Range(pass.slots)
        /\ Range(pass.slots) \subseteq Range(pass.swept)
        /\ Len(pass.slots) = Len(SelectSeq(pass.swept, LAMBDA g : Duration(g) >= Threshold))

\* The filter dropped a stretch and kept others
C4_Witness ==
    /\ pass.done
    /\ pass.slots # <<>>
    /\ \E g \in Range(pass.swept) : Duration(g) > 0 /\ Duration(g) < Threshold

-----------------------------------------------------------------------------
(* C5..C10: autoScheduleTasks, on the result of the latest pass *)

\* The n-th task the pass attempted
Attempted(n) == pass.tasks[pass.log[n].task]

\* The duration a task asks of a gap, travel included
Needs(t) == t.duration + t.commuteToDuration + t.commuteFromDuration

\* The interval a scheduled task occupies with its travel legs
Block(t) ==
    [start |-> t.scheduledStart - t.commuteToDuration,
     end |-> t.scheduledEnd + t.commuteFromDuration]

\* Some gap of the list returned by getAvailableSlots can hold the task
CanHold(t) == \E g \in Range(pass.slots) : Duration(g) >= Needs(t)

\* The task and commute intervals the pass generated
Generated == SelectSeq(pass.events, LAMBDA e : ~e.isFixed)

\* C5: every task is attempted once, a task of higher priority is attempted
\* before every task of lower priority, and a task whose priority is above
\* every other task's is scheduled whenever some returned gap can hold it,
\* whatever its place in the task list.
C5_PriorityOrder ==
    pass.done =>
        /\ Len(pass.log) = Len(pass.tasks)
        /\ {pass.log[n].task : n \in DOMAIN pass.log} = DOMAIN pass.tasks
        /\ \A m, n \in DOMAIN pass.log :
              Attempted(m).priority > Attempted(n).priority => m < n
        /\ \A a \in DOMAIN pass.tasks :
              (/\ \A b \in DOMAIN pass.tasks \ {a} :
                     pass.tasks[a].priority > pass.tasks[b].priority
               /\ CanHold(pass.tasks[a]))
              => pass.tasks[a].isScheduled

\* The gaps can hold either of two tasks; the task of higher priority, later
\* in the task list, is scheduled and the other one is not
C5_Witness ==
    /\ pass.done
    /\ Len(pass.tasks) = 2
    /\ pass.tasks[1].priority < pass.tasks[2].priority
    /\ CanHold(pass.tasks[1])
    /\ CanHold(pass.tasks[2])
    /\ pass.tasks[2].isScheduled
    /\ ~pass.tasks[1].isScheduled

\* C6: among tasks of equal priority the earlier deadline is attempted
\* first, and tasks equal in priority and deadline are attempted in the
\* order of the task list.
C6_DeadlineTieBreak ==
    pass.done =>
        \A m, n \in DOMAIN pass.log :
            (m < n /\ Attempted(m).priority = Attempted(n).priority) =>
                /\ Attempted(m).deadline <= Attempted(n).deadline
                /\ Attempted(m).deadline = Attempted(n).deadline
                      => pass.log[m].task < pass.log[n].task

\* Two tasks of equal priority; the second of the list has the earlier
\* deadline and is attempted first
C6_Witness ==
    /\ pass.done
    /\ Len(pass.tasks) = 2
    /\ pass.tasks[1].priority = pass.tasks[2].priority
    /\ pass.tasks[2].deadline < pass.tasks[1].deadline
    /\ pass.log[1].task = 2

\* The gap list the n-th attempt has to read: the returned list for the
\* first attempt, afterwards the list of the attempt before with the gap it
\* chose starting minBreakBetweenTasks after the end of the placed block
CurrentGaps(n) ==
    IF n = 1 THEN pass.slots
    ELSE LET before == pass.log[n - 1] IN
         IF before.slot = 0 THEN before.slotsBefore
         ELSE [before.slotsBefore EXCEPT ![before.slot].start =
                  Block(Attempted(n - 1)).end + pass.settings.minBreakBetweenTasks]

\* C7: each attempt reads the current gap list; a task is placed exactly
\* when some gap of that list lasts at least its total duration, and then
\* at the start of the first such gap: every earlier gap is shorter than the
\* total, and a gap that lasts exactly the total is taken.
C7_FirstFit ==
    pass.done =>
        \A n \in DOMAIN pass.log :
            LET e == pass.log[n]
                t == Attempted(n)
                fitting == {j \in DOMAIN e.slotsBefore :
                               Duration(e.slotsBefore[j]) >= Needs(t)}
            IN /\ e.slotsBefore = CurrentGaps(n)
               /\ t.isScheduled <=> fitting # {}
               /\ t.isScheduled =>
                     /\ e.slot \in fitting
                     /\ \A j \in fitting : e.slot <= j
                     /\ Block(t).start = e.slotsBefore[e.slot].start

\* The second attempt passes over shorter gaps and takes a gap that lasts
\* exactly the total duration
C7_Witness ==
    /\ pass.done
    /\ \E n \in DOMAIN pass.log :
          /\ n > 1
          /\ pass.log[n - 1].slot > 0
          /\ pass.log[n].slot > 1
          /\ Duration(pass.log[n].slotsBefore[pass.log[n].slot]) = Needs(Attempted(n))

\* The number of intervals the pass generates for a scheduled task
Legs(t) ==
    1 + (IF t.commuteToDuration > 0 THEN 1 ELSE 0)
      + (IF t.commuteFromDuration > 0 THEN 1 ELSE 0)

RECURSIVE SumLegs(_)
SumLegs(ts) ==
    IF ts = <<>> THEN 0
    ELSE (IF Head(ts).isScheduled THEN Legs(Head(ts)) ELSE 0) + SumLegs(Tail(ts))

\* A generated commute interval is a travel leg of scheduled task t
LegOf(e, t) ==
    /\ t.isScheduled
    /\ e.name.of = t.name
    /\ \/ /\ e.name.label = "Commute to "
          /\ t.commuteToDuration > 0
          /\ e.start = Block(t).start
          /\ e.end = t.scheduledStart
       \/ /\ e.name.label = "Commute from "
          /\ t.commuteFromDuration > 0
          /\ e.start = t.scheduledEnd
          /\ e.end = Block(t).end

\* C8: after a pass every task is either scheduled, with both times set and
\* its block inside one gap of the returned list and one task interval, or
\* unscheduled, with both times null and no interval generated for it: the
\* generated intervals are the task intervals and travel legs of the
\* scheduled tasks and no others.  A task whose total duration exceeds every
\* returned gap is unscheduled.
C8_AllOrNothing ==
    pass.done =>
        /\ \A i \in DOMAIN pass.tasks :
              LET t == pass.tasks[i]
                  own == Len(SelectSeq(pass.events, LAMBDA e : e.isTask /\ e.taskId = t.id))
              IN IF t.isScheduled
                 THEN /\ t.scheduledStart # NULL
                      /\ t.scheduledEnd # NULL
                      /\ t.scheduledStart <= t.scheduledEnd
                      /\ \E g \in Range(pass.slots) :
                            g.start <= Block(t).start /\ Block(t).end <= g.end
                      /\ own = 1
                 ELSE /\ t.scheduledStart = NULL
                      /\ t.scheduledEnd = NULL
                      /\ own = 0
        /\ Len(Generated) = SumLegs(pass.tasks)
        /\ \A e \in Range(Generated) :
              \/ e.isTask /\ \E t \in Range(pass.tasks) :
                    /\ t.isScheduled /\ t.id = e.taskId
                    /\ e.start = t.scheduledStart /\ e.end = t.scheduledEnd
              \/ e.isCommute /\ \E t \in Range(pass.tasks) : LegOf(e, t)
        /\ \A t \in Range(pass.tasks) :
              (\A g \in Range(pass.slots) : Needs(t) > Duration(g)) => ~t.isScheduled

\* There are gaps; one task exceeds every one of them and is unscheduled,
\* another one is scheduled with both travel legs
C8_Witness ==
    /\ pass.done
    /\ pass.slots # <<>>
    /\ \E t \in Range(pass.tasks) :
          /\ \A g \in Range(pass.slots) : Needs(t) > Duration(g)
          /\ ~t.isScheduled
    /\ \E t \in Range(pass.tasks) :
          t.isScheduled /\ t.commuteToDuration > 0 /\ t.commuteFromDuration > 0

\* C9: any two scheduled tasks, with their travel legs, are separated by at
\* least minBreakBetweenTasks minutes.
C9_BreakBetweenAnyTwo ==
    pass.done =>
        \A a, b \in DOMAIN pass.tasks :
            (/\ a # b
             /\ pass.tasks[a].isScheduled
             /\ pass.tasks[b].isScheduled
             /\ Block(pass.tasks[a]).end <= Block(pass.tasks[b]).start)
            => Block(pass.tasks[b]).start - Block(pass.tasks[a]).end
                  >= pass.settings.minBreakBetweenTasks

\* C10: no generated task or commute interval overlaps a fixed event.
C10_NoOverlapWithFixed ==
    pass.done =>
        \A p \in Range(Generated), f \in Range(pass.fixed) :
            ~(p.start < f.end /\ p.end > f.start)

\* A travel leg ends where a fixed event starts, and a task interval starts
\* where a fixed event ends
C10_Witness ==
    /\ pass.done
    /\ \E p \in Range(Generated), f \in Range(pass.fixed) :
          p.isCommute /\ p.end = f.start
    /\ \E p \in Range(Generated), f \in Range(pass.fixed) :
          p.isTask /\ p.start = f.end

-----------------------------------------------------------------------------
(* C11..C20 *)

\* An interval lies inside the working hours of one working day of the pass
InWorkingHours(from, to) ==
    LET d == from \div MinPerDay IN
    /\ (d % 7) \in pass.settings.workDays
    /\ WorkStart(d) <= from
    /\ from <= to
    /\ to <= WorkEnd(d)

\* C11: after a pass every scheduled task, with its commute legs, lies inside
\* the working hours of one day whose weekday is a working day; so does every
\* task and commute interval the pass generated.
C11_TasksInWorkingHours ==
    pass.done =>
        /\ \A t \in Range(pass.tasks) :
              t.isScheduled => InWorkingHours(Block(t).start, Block(t).end)
        /\ \A e \in Range(Generated) : InWorkingHours(e.start, e.end)

\* With Tuesday the one working day, a task with both commute legs starts its
\* block at the first working minute and another task ends at the last one
C11_Witness ==
    /\ pass.done
    /\ pass.settings.workDays = {2}
    /\ \E t \in Range(pass.tasks) :
          /\ t.isScheduled
          /\ t.commuteToDuration > 0
          /\ t.commuteFromDuration > 0
          /\ Block(t).start = WorkStart(Block(t).start \div MinPerDay)
    /\ \E t \in Range(pass.tasks) :
          /\ t.isScheduled
          /\ Block(t).end = WorkEnd(Block(t).start \div MinPerDay)

\* C12: a second autoScheduleTasks call on the tasks and events the first
\* call stored, with the same settings and the same clock reading, stores the
\* same tasks (scheduledStart and scheduledEnd included) and the same events.
C12_Idempotent ==
    pass.done =>
        LET again == AutoScheduleTasks(pass.tasks, pass.events, pass.settings, pass.now)
        IN /\ again.tasks = pass.tasks
           /\ again.events = pass.events
           /\ again.pass.slots = pass.slots

\* The first call stored task and commute intervals next to a fixed event,
\* and left a task unscheduled
C12_Witness ==
    /\ pass.done
    /\ pass.fixed # <<>>
    /\ \E e \in Range(pass.events) : e.isTask
    /\ \E e \in Range(pass.events) : e.isCommute /\ ~e.isFixed
    /\ \E t \in Range(pass.tasks) : ~t.isScheduled

\* The schedule stored after a step is what a pass made at clock reading
\* `now` on the tasks, events and settings stored after the step returns
FreshAfter(now) ==
    LET r == AutoScheduleTasks(tasks', events', settings', now) IN
    /\ r.tasks = tasks'
    /\ r.events = events'

\* A step changes the task set (the tasks without their scheduling fields)
\* or the list of fixed events
DataChanged ==
    \/ ResetTasks(tasks') # ResetTasks(tasks)
    \/ FixedEvents(events') # FixedEvents(events)

\* C13: after every step that changes the task set or the fixed events (task
\* form, event form, fetchICS, importData), the stored schedule is the
\* result of a fresh pass over the stored tasks and fixed events.
C13_RescheduleOnChange ==
    [][DataChanged => \E now \in Clock : FreshAfter(now)]_vars

\* C14: after every step that mutates the settings (saveSettings, settings
\* form, importData with settings), the stored schedule is the result of a
\* fresh pass under the new settings.
C14_RescheduleOnSettings ==
    [][(settings' # settings /\ ~Reload) => \E now \in Clock : FreshAfter(now)]_vars

\* The events the attempts of a pass pushed, in the order of the attempts
RECURSIVE PushedBy(_)
PushedBy(log) ==
    IF log = <<>> THEN <<>> ELSE Head(log).pushed \o PushedBy(Tail(log))

\* C15: after every pass the events list is the fixed events, each as it was
\* before the pass and in the same order (the handler may have appended new
\* ones), followed by the task and commute intervals the latest pass pushed
\* and nothing else; every scheduled task has exactly one task event, whose
\* start and end are its scheduledStart and scheduledEnd, and an unscheduled
\* task has none.
C15_OnlyLatestPass ==
    [][LET old == FixedEvents(events)
           new == FixedEvents(events')
       IN /\ Len(old) <= Len(new)
          /\ SubSeq(new, 1, Len(old)) = old
          /\ events' = new \o PushedBy(pass'.log)
          /\ \A e \in Range(PushedBy(pass'.log)) : ~e.isFixed
          /\ \A t \in Range(tasks') :
                LET own == SelectSeq(events', LAMBDA e : e.isTask /\ e.taskId = t.id)
                IN IF t.isScheduled
                   THEN /\ Len(own) = 1
                        /\ own[1].start = t.scheduledStart
                        /\ own[1].end = t.scheduledEnd
                   ELSE own = <<>>]_vars

\* Two tasks and two events were entered, each followed by a pass; the
\* latest pass scheduled both tasks, one with a commute leg
C15_Witness ==
    /\ pass.done
    /\ Len(tasks) = 2
    /\ Entered(events) = 2
    /\ \A t \in Range(tasks) : t.isScheduled
    /\ Len(SelectSeq(events, LAMBDA e : e.isTask)) = 2
    /\ \E e \in Range(events) : e.isCommute /\ ~e.isFixed

\* C16: a pass keeps the tasks of the list in their order (the task form
\* appends one before the pass) and changes none of their fields but
\* isScheduled, scheduledStart and scheduledEnd; a task for which the pass
\* found no gap ends with isScheduled false and both times null, whatever
\* the pass before stored in them.
C16_TasksFrame ==
    [][/\ Len(tasks') - Len(tasks) \in {0, 1}
       /\ \A i \in DOMAIN tasks : ResetTasks(tasks')[i] = ResetTasks(tasks)[i]
       /\ \A n \in DOMAIN pass'.log :
             LET i == pass'.log[n].task IN
             (pass'.log[n].slot = 0) =>
                 /\ ~tasks'[i].isScheduled
                 /\ tasks'[i].scheduledStart = NULL
                 /\ tasks'[i].scheduledEnd = NULL
       /\ \A i \in DOMAIN tasks' :
             ~tasks'[i].isScheduled =>
                 tasks'[i].scheduledStart = NULL /\ tasks'[i].scheduledEnd = NULL]_vars

\* A task is scheduled, and the settings form can submit settings under
\* which the pass finds no gap for it and leaves it unscheduled with null times
C16_Witness ==
    /\ pass.done
    /\ \E i \in DOMAIN tasks, input \in SettingsInputs :
          LET r == AutoScheduleTasks(tasks, events, WithInput(settings, input), pass.now)
          IN /\ tasks[i].isScheduled
             /\ tasks[i].scheduledStart # NULL
             /\ r.pass.slots # <<>>
             /\ ~r.tasks[i].isScheduled
             /\ r.tasks[i].scheduledStart = NULL

\* The stored state comes back from exportData, JSON.stringify, JSON.parse
\* and importData as it is, every date included
FileRoundTrip ==
    LET r == ImportData(ExportData(events, tasks, settings), <<>>, <<>>, DefaultSettings)
    IN /\ r.events = events
       /\ r.tasks = tasks
       /\ r.settings = settings

\* The state after a step is equivalent to the state before it: for a pass
\* at clock reading `now`, the same gaps and the same placements
SameCoreAfter(now) ==
    /\ GetAvailableSlots(events', settings', now, TwoWeeksFrom(now))
          = GetAvailableSlots(events, settings, now, TwoWeeksFrom(now))
    /\ AutoScheduleTasks(tasks', events', settings', now).tasks
          = AutoScheduleTasks(tasks, events, settings, now).tasks

NoWorkingTime ==
    \A d \in PassDays :
        (d % 7) \in pass.settings.workDays =>
            Max(pass.now, WorkStart(d)) >= WorkEnd(d)

\* C18: when no day is a work day, or no minute of the horizon lies in
\* working hours, the sweep and getAvailableSlots return empty lists and the
\* pass completes: every task is attempted and left unscheduled with null
\* times, and no interval is generated.
C18_EmptyAvailability ==
    (pass.done /\ (pass.settings.workDays = {} \/ NoWorkingTime)) =>
        /\ pass.swept = <<>>
        /\ pass.slots = <<>>
        /\ Len(pass.log) = Len(pass.tasks)
        /\ \A t \in Range(pass.tasks) :
              ~t.isScheduled /\ t.scheduledStart = NULL /\ t.scheduledEnd = NULL
        /\ Generated = <<>>
        /\ pass.events = pass.fixed

\* No day is a work day; there are fixed events and two tasks, both unscheduled
C18_Witness ==
    /\ pass.done
    /\ pass.settings.workDays = {}
    /\ pass.fixed # <<>>
    /\ Len(pass.tasks) = 2
    /\ pass.slots = <<>>
    /\ \A t \in Range(pass.tasks) : ~t.isScheduled

\* The same with work days and working hours that end before they start
C18_WitnessHours ==
    /\ pass.done
    /\ pass.settings.workDays # {}
    /\ NoWorkingTime
    /\ Len(pass.tasks) = 2
    /\ pass.slots = <<>>
    /\ \A t \in Range(pass.tasks) : ~t.isScheduled

\* The first Tuesday, its event of 10:00-11:00 and the settings of the scenario
Tuesday == 2

ScenarioOfC19 ==
    /\ pass.done
    /\ pass.settings.workingHours = [start |-> 9, end |-> 17]
    /\ pass.settings.workDays = {1, 2, 3, 4, 5}
    /\ pass.settings.minBreakBetweenTasks = 15
    /\ pass.fixed = <<FixedEvent("", 1, At(Tuesday, 10, 0), At(Tuesday, 11, 0), FALSE)>>
    /\ pass.now <= At(Tuesday, 9, 0)

\* C19: in the scenario the gaps of that Tuesday are [09:00,10:00) and
\* [11:00,17:00), and a single task of 30 minutes at priority 5 with no gap
\* of 30 minutes before that Tuesday is placed on Tuesday 09:00-09:30.
C19_TuesdayScenario ==
    ScenarioOfC19 =>
        /\ SelectSeq(pass.slots, LAMBDA g : g.start \div MinPerDay = Tuesday)
              = <<[start |-> At(Tuesday, 9, 0), end |-> At(Tuesday, 10, 0)],
                  [start |-> At(Tuesday, 11, 0), end |-> At(Tuesday, 17, 0)]>>
        /\ (/\ Len(pass.tasks) = 1
            /\ pass.tasks[1].duration = 30
            /\ pass.tasks[1].priority = 5
            /\ Needs(pass.tasks[1]) = 30
            /\ \A g \in Range(pass.slots) :
                  g.start < At(Tuesday, 0, 0) => Duration(g) < 30)
           => /\ pass.tasks[1].isScheduled
              /\ pass.tasks[1].scheduledStart = At(Tuesday, 9, 0)
              /\ pass.tasks[1].scheduledEnd = At(Tuesday, 9, 30)

\* The scenario with the clock at Monday 18:00 and the task placed
C19_Witness ==
    /\ ScenarioOfC19
    /\ pass.now = At(1, 18, 0)
    /\ Len(pass.tasks) = 1
    /\ pass.tasks[1].duration = 30
    /\ pass.tasks[1].priority = 5
    /\ pass.tasks[1].scheduledStart = At(Tuesday, 9, 0)

\* The two tasks of the scenario of C20, a break of 15 minutes and a first
\* gap of 500 minutes; `big` and `small` are their places in the task list
ScenarioOfC20(big, small) ==
    /\ pass.done
    /\ pass.settings.minBreakBetweenTasks = 15
    /\ DOMAIN pass.tasks = {big, small}
    /\ big # small
    /\ pass.tasks[big].duration = 480
    /\ pass.tasks[big].priority = 10
    /\ Needs(pass.tasks[big]) = 480
    /\ pass.tasks[small].duration = 30
    /\ pass.tasks[small].priority = 5
    /\ Needs(pass.tasks[small]) = 30
    /\ pass.slots # <<>>
    /\ Duration(pass.slots[1]) = 500

\* The later gaps of the returned list that last at least 30 minutes
LaterGaps == {j \in 2 .. Len(pass.slots) : Duration(pass.slots[j]) >= 30}

\* C20: in the scenario the 480-minute task is placed at the start of the
\* 500-minute gap; the 30-minute task is not placed in that gap; it is placed
\* at the start of the first later gap of at least 30 minutes, or left
\* unscheduled when there is none.
C20_LongTaskScenario ==
    \A big, small \in {1, 2} :
        ScenarioOfC20(big, small) =>
            LET b == pass.tasks[big]
                t == pass.tasks[small]
                first == pass.slots[1]
            IN /\ b.isScheduled
               /\ b.scheduledStart = first.start
               /\ b.scheduledEnd = first.start + 480
               /\ ~(/\ t.isScheduled
                    /\ first.start <= t.scheduledStart
                    /\ t.scheduledStart < first.end)
               /\ IF LaterGaps = {}
                  THEN ~t.isScheduled
                  ELSE LET j == CHOOSE j \in LaterGaps : \A k \in LaterGaps : j <= k
                       IN /\ t.isScheduled
                          /\ t.scheduledStart = pass.slots[j].start
                          /\ t.scheduledEnd = pass.slots[j].start + 30

\* The scenario with the 30-minute task first in the task list and placed
\* in a later gap
C20_Witness ==
    /\ ScenarioOfC20(2, 1)
    /\ LaterGaps # {}
    /\ pass.tasks[1].isScheduled
    /\ pass.tasks[1].scheduledStart \div MinPerDay > Tuesday

\* The scenario when no later gap exists: the 30-minute task is unscheduled
C20_WitnessNoLaterGap ==
    /\ ScenarioOfC20(2, 1)
    /\ LaterGaps = {}
    /\ ~pass.tasks[1].isScheduled

-----------------------------------------------------------------------------
(* C21..C30 *)

\* A task carries no travel duration: both fields are absent
NoTravelFields(t) ==
    t.commuteToDuration = Undefined /\ t.commuteFromDuration = Undefined

\* The tasks with every absent travel duration set to 0
WithZeroTravel(ts) ==
    [i \in DOMAIN ts |->
        [ts[i] EXCEPT !.commuteToDuration = IF @ = Undefined THEN 0 ELSE @,
                      !.commuteFromDuration = IF @ = Undefined THEN 0 ELSE @]]

\* C21: after a pass, a task without travel durations is scheduled as the
\* same task with both travel durations 0 is: its total duration is its
\* duration, and it is placed at the start of the first gap of the returned
\* list that lasts at least that long.
C21_AbsentTravelIsZero ==
    pass.done =>
        LET zero == AutoScheduleTasks(WithZeroTravel(pass.tasks), pass.fixed,
                                      pass.settings, pass.now).tasks
        IN \A i \in DOMAIN pass.tasks :
              NoTravelFields(pass.tasks[i]) =>
                  /\ TotalDuration(pass.tasks[i]) = pass.tasks[i].duration
                  /\ pass.tasks[i].isScheduled = zero[i].isScheduled
                  /\ pass.tasks[i].scheduledStart = zero[i].scheduledStart
                  /\ pass.tasks[i].scheduledEnd = zero[i].scheduledEnd

\* The n-th attempt of the pass placed its task
Placed(n) == pass.log[n].slot > 0

\* The gap the n-th attempt chose, as the attempt found it
ChosenGap(n) == pass.log[n].slotsBefore[pass.log[n].slot]

\* The gap list the n-th attempt left behind
GapsAfter(n) ==
    IF n < Len(pass.log) THEN pass.log[n + 1].slotsBefore ELSE pass.finalSlots

\* C22: when an attempt places a task in a gap, its block starts at the
\* start of the gap and is contiguous: the pre-travel leg, if the task has
\* one, runs from the gap start for commuteToDuration minutes and the task
\* starts where it ends, otherwise the task starts at the gap start; the
\* task lasts task.duration minutes; the post-travel leg, if any, starts at
\* scheduledEnd and lasts commuteFromDuration minutes; the intervals are
\* pushed in that order, each starting where the one before ends; the block
\* ends no later than the gap.
C22_BlockContiguous ==
    pass.done =>
        \A n \in DOMAIN pass.log :
            Placed(n) =>
                LET t == Attempted(n)
                    g == ChosenGap(n)
                    p == pass.log[n].pushed
                    hasTo == t.commuteToDuration > 0
                    hasFrom == t.commuteFromDuration > 0
                    k == IF hasTo THEN 2 ELSE 1
                IN /\ Len(p) = Legs(t)
                   /\ p[1].start = g.start
                   /\ \A j \in 1 .. Len(p) - 1 : p[j].end = p[j + 1].start
                   /\ hasTo => /\ p[1].isCommute
                               /\ p[1].name.label = "Commute to "
                               /\ p[1].end = g.start + t.commuteToDuration
                   /\ t.scheduledStart = g.start + (IF hasTo THEN t.commuteToDuration ELSE 0)
                   /\ t.scheduledEnd - t.scheduledStart = t.duration
                   /\ p[k].isTask
                   /\ p[k].start = t.scheduledStart
                   /\ p[k].end = t.scheduledEnd
                   /\ hasFrom => /\ p[k + 1].isCommute
                                 /\ p[k + 1].name.label = "Commute from "
                                 /\ p[k + 1].start = t.scheduledEnd
                                 /\ p[k + 1].end = t.scheduledEnd + t.commuteFromDuration
                   /\ p[Len(p)].end <= g.end

\* A task with both travel legs fills a gap from its start to its end, and a
\* task with no leg is placed too
C22_Witness ==
    /\ pass.done
    /\ \E n \in DOMAIN pass.log :
          /\ Placed(n)
          /\ Attempted(n).commuteToDuration > 0
          /\ Attempted(n).commuteFromDuration > 0
          /\ Block(Attempted(n)).end = ChosenGap(n).end
    /\ \E n \in DOMAIN pass.log :
          Placed(n) /\ Needs(Attempted(n)) = Attempted(n).duration

\* C23: an attempt that places a task changes one gap of the list: the
\* chosen gap starts minBreakBetweenTasks minutes after the end of the block
\* and ends where it ended; every other gap, the number of gaps and their
\* order are as before.
C23_OneGapShrinks ==
    pass.done =>
        \A n \in DOMAIN pass.log :
            Placed(n) =>
                LET before == pass.log[n].slotsBefore
                    after == GapsAfter(n)
                    i == pass.log[n].slot
                IN /\ Len(after) = Len(before)
                   /\ \A j \in DOMAIN before : j # i => after[j] = before[j]
                   /\ after[i].end = before[i].end
                   /\ after[i].start =
                         Block(Attempted(n)).end + pass.settings.minBreakBetweenTasks

\* With a break of at least 15 minutes, an attempt places a task with a
\* post-travel leg in a gap that is neither the first nor the last of the list
C23_Witness ==
    /\ pass.done
    /\ pass.settings.minBreakBetweenTasks > 0
    /\ \E n \in DOMAIN pass.log :
          /\ Placed(n)
          /\ pass.log[n].slot > 1
          /\ pass.log[n].slot < Len(pass.log[n].slotsBefore)
          /\ Attempted(n).commuteFromDuration > 0

\* C24: no attempt for a task of positive total duration chooses a gap that
\* starts at or after its end, and the pass attempts every task of the
\* queue with such gaps in the list.
C24_SpentGapNeverChosen ==
    pass.done =>
        /\ Len(pass.log) = Len(pass.queue)
        /\ \A n \in DOMAIN pass.log :
              (Placed(n) /\ TotalDuration(Attempted(n)) > 0) =>
                  ChosenGap(n).start < ChosenGap(n).end

\* A placement left a gap that starts after its end; the next attempt scans
\* past it and places its task in a later gap
C24_Witness ==
    /\ pass.done
    /\ \E n \in DOMAIN pass.log :
          /\ Placed(n)
          /\ TotalDuration(Attempted(n)) > 0
          /\ \E j \in 1 .. pass.log[n].slot - 1 :
                pass.log[n].slotsBefore[j].start > pass.log[n].slotsBefore[j].end

\* C25: an attempt that finds no gap pushes no event and leaves the gap list
\* as it found it, so that the events are the fixed ones followed by what the
\* placing attempts pushed; every later task of the queue is still
\* attempted, and is placed exactly when some gap of the list it reads
\* lasts at least its total duration.
C25_FailureChangesNothing ==
    pass.done =>
        /\ pass.events = pass.fixed \o PushedBy(pass.log)
        /\ \A n \in DOMAIN pass.log :
              ~Placed(n) =>
                 /\ pass.log[n].pushed = <<>>
                 /\ GapsAfter(n) = pass.log[n].slotsBefore
                 /\ \A m \in n + 1 .. Len(pass.queue) :
                       /\ m \in DOMAIN pass.log
                       /\ pass.log[m].task = pass.queue[m]
                       /\ Placed(m) <=>
                             \E g \in Range(pass.log[m].slotsBefore) :
                                Duration(g) >= Needs(Attempted(m))

\* The first attempt finds no gap for a long task; the second places a
\* shorter task of lower rank
C25_Witness ==
    /\ pass.done
    /\ pass.slots # <<>>
    /\ Len(pass.log) = 2
    /\ ~Placed(1)
    /\ Placed(2)
    /\ Attempted(2).duration < Attempted(1).duration

\* One fixed event lies inside another one that starts no later
Nested(f, g) == g.start <= f.start /\ f.end <= g.end

\* C26: whatever way the fixed events overlap (one inside another, one
\* across the end of another, the same event twice), every gap the sweep
\* emits starts before it ends and overlaps no fixed event, and the gaps
\* come in the order of time.
C26_OverlapTolerated ==
    pass.done =>
        /\ \A g \in Range(pass.swept) :
              /\ g.start < g.end
              /\ \A f \in Range(pass.fixed) : ~Overlap(f, g)
        /\ \A i \in 1 .. Len(pass.swept) - 1 :
              pass.swept[i].end <= pass.swept[i + 1].start

\* The event sorted last lies inside an earlier, longer one; a gap starts
\* where the longer one ends
C26_Witness ==
    /\ pass.done
    /\ Len(pass.fixed) = 2
    /\ \E i, j \in DOMAIN pass.fixed :
          /\ i # j
          /\ Nested(pass.fixed[i], pass.fixed[j])
          /\ pass.fixed[j].start < pass.fixed[i].start
          /\ pass.fixed[i].end < pass.fixed[j].end
          /\ \E g \in Range(pass.swept) : g.start = pass.fixed[j].end

\* Two events that overlap without one being inside the other
C26_WitnessAcross ==
    /\ pass.done
    /\ \E f, g \in Range(pass.fixed) :
          f.start < g.start /\ g.start < f.end /\ f.end < g.end
    /\ pass.swept # <<>>

\* The same event twice
C26_WitnessTwice ==
    /\ pass.done
    /\ Len(pass.fixed) = 2
    /\ pass.fixed[1] = pass.fixed[2]
    /\ pass.swept # <<>>

\* C27: every gap getAvailableSlots(startDate, endDate) returns lies inside
\* the horizon: it starts at or after startDate and ends at or before
\* endDate; so every scheduled task, with its commute legs, lies inside
\* [startDate, endDate].
C27_GapsInsideHorizon ==
    pass.done =>
        /\ \A g \in Range(pass.slots) :
              pass.now <= g.start /\ g.end <= TwoWeeksFrom(pass.now)
        /\ \A t \in Range(pass.tasks) :
              t.isScheduled =>
                  /\ pass.now <= Block(t).start
                  /\ Block(t).end <= TwoWeeksFrom(pass.now)

\* The half of C27 about the start of the horizon
C27_GapsNotBeforeStart ==
    pass.done =>
        /\ \A g \in Range(pass.slots) : pass.now <= g.start
        /\ \A t \in Range(pass.tasks) : t.isScheduled => pass.now <= Block(t).start

\* The statement of C27 about the tasks alone
C27_TasksInsideHorizon ==
    pass.done =>
        \A t \in Range(pass.tasks) :
            t.isScheduled => Block(t).end <= TwoWeeksFrom(pass.now)

\* Deadlines a task could have had instead: Monday 00:00 of the first week
\* (before every clock reading), Wednesday 00:00 and Friday 00:00
AltDeadlines == {At(1, 0, 0), At(3, 0, 0), At(5, 0, 0)}

\* The tasks with the deadlines d, one for each task
WithDeadlines(ts, d) == [i \in DOMAIN ts |-> [ts[i] EXCEPT !.deadline = d[i]]]

\* What a pass decided for each task
Placement(ts) ==
    [i \in DOMAIN ts |->
        <<ts[i].isScheduled, ts[i].scheduledStart, ts[i].scheduledEnd>>]

\* C28: a pass over the same tasks with other deadlines that attempts them
\* in the same order makes the same placements, stores the same events and
\* leaves the same gaps; and every attempt with a fitting gap places its
\* task in the first one, also when the block then ends after the deadline
\* of the task.
C28_DeadlineOnlyOrders ==
    pass.done =>
        /\ \A d \in [DOMAIN pass.tasks -> AltDeadlines] :
              LET other == AutoScheduleTasks(WithDeadlines(pass.tasks, d), pass.fixed,
                                             pass.settings, pass.now)
              IN other.pass.queue = pass.queue =>
                    /\ Placement(other.tasks) = Placement(pass.tasks)
                    /\ other.events = pass.events
                    /\ other.pass.finalSlots = pass.finalSlots
        /\ \A n \in DOMAIN pass.log :
              LET fitting == {j \in DOMAIN pass.log[n].slotsBefore :
                                 Duration(pass.log[n].slotsBefore[j]) >= Needs(Attempted(n))}
              IN fitting # {} =>
                    /\ pass.log[n].slot \in fitting
                    /\ \A j \in fitting : pass.log[n].slot <= j

\* Two tasks; one is scheduled to end after its deadline, and with another
\* deadline for it the pass attempts the tasks in the same order
C28_Witness ==
    /\ pass.done
    /\ Len(pass.tasks) = 2
    /\ \E i \in DOMAIN pass.tasks :
          /\ pass.tasks[i].isScheduled
          /\ pass.tasks[i].scheduledEnd > pass.tasks[i].deadline
          /\ pass.tasks[i].deadline > pass.now
          /\ \E d \in [DOMAIN pass.tasks -> AltDeadlines] :
                /\ d[i] # pass.tasks[i].deadline
                /\ TaskQueue(WithDeadlines(pass.tasks, d)) = pass.queue

\* Two tasks of equal priority: deadlines in the other order change the
\* order of the attempts, deadlines in the same order do not
C28_WitnessEqualPriority ==
    /\ pass.done
    /\ Len(pass.tasks) = 2
    /\ pass.tasks[1].priority = pass.tasks[2].priority
    /\ \A t \in Range(pass.tasks) : t.isScheduled
    /\ \E d \in [DOMAIN pass.tasks -> AltDeadlines] :
          d[1] # d[2] /\ TaskQueue(WithDeadlines(pass.tasks, d)) = pass.queue
    /\ \E d \in [DOMAIN pass.tasks -> AltDeadlines] :
          TaskQueue(WithDeadlines(pass.tasks, d)) # pass.queue

C29_AnyEvents ==
    pass.done => PairwiseDisjoint(Generated)

\* One list is the start of another
IsPrefix(a, b) == Len(a) <= Len(b) /\ SubSeq(b, 1, Len(a)) = a

\* The handlers that end in this step
Ended ==
    {handlers[i] : i \in {j \in DOMAIN handlers : handlers' = RemoveAt(handlers, j)}}

\* What a handler has added is stored: the event of an event handler from
\* its start on; at its end the task of a task handler with the looked-up
\* way there, and the commute event of the way there of an event handler
AddsStored(h, ended, ts, evs) ==
    IF h.kind = "task"
    THEN ended => \E t \in Range(ResetTasks(ts)) :
                     [t EXCEPT !.commuteFromDuration = 0] = h.item
    ELSE /\ FixedEvent("", h.item.name, h.item.start, h.item.end, FALSE) \in Range(evs)
         /\ (ended /\ h.to > 0) =>
               FixedEvent("Commute to ", h.item.name, h.item.start - h.to,
                          h.item.start, TRUE) \in Range(evs)

\* C30: whatever the order in which the suspended handlers go on, no step
\* removes or changes a stored task or fixed event, everything a handler has
\* added is stored, and when the last handler has ended the stored schedule
\* is what a pass from scratch makes of the stored tasks and fixed events
\* (commute events of fixed events included).
C30_AsyncHandlers ==
    [][/\ IsPrefix(ResetTasks(tasks), ResetTasks(tasks'))
       /\ IsPrefix(FixedEvents(events), FixedEvents(events'))
       /\ \A h \in Range(handlers') : AddsStored(h, FALSE, tasks', events')
       /\ \A h \in Ended : AddsStored(h, TRUE, tasks', events')
       /\ handlers' = <<>> => FreshAfter(pass'.now)]_vars

\* All handlers have ended; the task submitted second was added first, a
\* task and a fixed event have commutes from lookups, and a task is scheduled
C30_Witness ==
    /\ handlers = <<>>
    /\ pass.done
    /\ Len(tasks) = 2
    /\ tasks[1].id > tasks[2].id
    /\ \E t \in Range(tasks) : t.commuteToDuration > 0 /\ t.isScheduled
    /\ \E e \in Range(events) : e.isFixed /\ e.isCommute
    /\ events = pass.events

====
